---- MODULE Spec2Model ----
(***************************************************************************)
(* The signaling and session-coordination server of ScreenShareCast        *)
(* (server/routes.ts and server/storage.ts, kept in src/unnamed/part_007). *)
(*                                                                         *)
(* State: the connection registry `clients`, the live session table        *)
(* `sessions` (code -> set of member identities), the persisted session    *)
(* records of MemStorage, and what every transport has been sent.          *)
(* Every `await` of an async handler is a scheduling point: the part of a  *)
(* handler before its await and the part after it are separate actions,    *)
(* and the position of each client's handler is kept in `pc`.  A call of   *)
(* a MemStorage method runs to completion where it is called (the method   *)
(* bodies hold no await); only its result is handed over after the await.  *)
(***************************************************************************)
EXTENDS Integers, Sequences, FiniteSets, TLC

\* ---- bounds of the model ----
MaxClients == 3   \* connections accepted over the run (identities 1..MaxClients)
MaxCodes == 2     \* pairing codes clients may name
MaxMsgs == 3      \* requests handled: inbound frames and POST /api/sessions
MaxRelayClients == 2   \* connections accepted in the runs of RelaySpec and FaultSpec
MaxRelayCodes == 1     \* pairing codes named in the runs of RelaySpec and FaultSpec
MaxRecordings == 2     \* recordings started over a run of RecorderSpec
MaxChunks == 2         \* chunks a recorder hands over on its timeslice, per recording
MaxSockets == 8        \* WebSocket objects a client creates over a run of SocketSpec
MaxFiles == 2          \* files a peer sends over a run of FileSpec
MaxFileChunks == 2     \* chunks a sent file is cut into, at most
MaxCancels == 2        \* cancelTransfer calls over a run
MaxFileMsgs == 4       \* file messages a peer receives over a run
MaxCalls == 4          \* calls of the client's socket and session API over a run

\* ---- constants of the client's socket module (websocket.ts) ----
MAX_RECONNECT_ATTEMPTS == 5
RECONNECT_DELAY == 2000
\* BACKOFF_MULTIPLIER = 1.5, kept as a fraction
BACKOFF_MULTIPLIER == [num |-> 3, den |-> 2]

Ids == 1..MaxClients
Codes == 1..MaxCodes
\* hostId values a POST /api/sessions body may carry: any string, a live identity or not
HostIds == 0..MaxClients
\* the `data` of an offer / answer / ice_candidate frame: targetId is any
\* string (an identity issued or not), fromId is absent (0) or any string
RelayData == [targetId : Ids, fromId : 0..MaxRelayClients]

VARIABLES
    nextId,           \* the identity the next accepted connection gets (nanoid: fresh)
    clients,          \* keys of the `clients` map (the connection registry)
    open,             \* identities whose ws.readyState is OPEN
    sessions,         \* the `sessions` map: code -> Set of member identities
    storageSessions,  \* MemStorage.sessions in insertion order; record id = index
    pc,               \* per client: the async handler suspended at an await, if any
    delivered,        \* per client: the envelopes sent on its transport, in order
    msgs,             \* requests handled so far (inbound frames and POSTs)
    creator,          \* history: who created the live entry of a code (0: nobody)
    retired           \* history: codes whose entry was emptied and not created again

serverVars == <<nextId, clients, open, sessions, storageSessions, pc, delivered,
                msgs, creator, retired>>

\* the ScreenRecorder singleton of a client (client/src/lib/screenRecorder.ts)
VARIABLES
    mediaRecorder,       \* this.mediaRecorder: 0 is null, n the recorder of recording n
    recorderState,       \* MediaRecorder.state of that recorder (the browser's object)
    recordingStream,     \* this.recordingStream is not null
    recordedChunks,      \* this.recordedChunks: per chunk, the recorder it came from
    timerId,             \* this.timerId is not null (the duration timer runs)
    currentRecordingId,  \* this.currentRecordingId: 0 is null
    recordingState,      \* this.recordingState
    pending,             \* events the browser has queued on recorders, in order
    completed,           \* what the onRecordingComplete callbacks were called with
    notified,            \* the state the onStateChange callbacks were last called with
    result,              \* the last call of the recorder's API and what it returned
    cancelled,           \* history: recordings for which cancelRecording returned true
    nextRecording        \* the number the next recording gets (Date.now + random: fresh)

recorderVars == <<mediaRecorder, recorderState, recordingStream, recordedChunks,
                  timerId, currentRecordingId, recordingState, pending, completed,
                  notified, result, cancelled, nextRecording>>

\* the socket module of a client (websocket.ts) and the session fields of its
\* WebRTCManager (webrtc.ts), both kept in src/unnamed/part_004
VARIABLES
    socket,             \* the module's `socket`: 0 is null, n the n-th WebSocket created
    sockets,            \* per WebSocket object created, in order: its state
    isConnected,        \* the module's isConnected
    reconnectAttempts,  \* the module's reconnectAttempts
    timers,             \* the reconnection timeouts pending, in the order they were set
    wsClientId,         \* the module's clientId: 0 is null
    sessionCode,        \* WebRTCManager.sessionCode: 0 is null
    sentFrames,         \* the frames the client put on a socket, in order
    calls,              \* calls of the client's API made so far
    autoAttempts,       \* history: sockets opened by timeouts since the last open event
    userClosed          \* history: closeWebSocket was called and connectWebSocket not since

socketVars == <<socket, sockets, isConnected, reconnectAttempts, timers, wsClientId,
                sessionCode, sentFrames, calls, autoAttempts, userClosed>>

\* the FileTransferManager of a client (fileTransfer.ts, kept in
\* src/unnamed/part_005): one object, sending its own files and receiving the
\* files of the remote peer
VARIABLES
    fileProgress,       \* fileProgress: per fileId the status, "none" when absent
    fileChunks,         \* fileChunks: per fileId whether an array is held, and the
                        \* chunk indexes stored in it
    currentTransfers,   \* the fileIds currentTransfers holds
    cancelObj,          \* per sent file, the cancel flag of its cancelObj
    loop,               \* per sent file, where sendFile / sendFileChunks stands
    nextFile,           \* the next fileId sendFile generates
    dataSent,           \* the sendDataMessage calls made, in order
    cancels,            \* cancelTransfer calls made so far
    fileMsgs,           \* file messages received so far
    raised,             \* history: exceptions thrown by the receiving handlers
    cancelledAt         \* history: per sent file, Len(dataSent) when cancelTransfer
                        \* first returned true, 0 before

fileVars == <<fileProgress, fileChunks, currentTransfers, cancelObj, loop, nextFile,
              dataSent, cancels, fileMsgs, raised, cancelledAt>>

clientVars == <<recorderVars, socketVars, fileVars>>

vars == <<serverVars, clientVars>>

\* ---- persisted sessions (MemStorage) ----

\* `undefined`, the result of a lookup that finds nothing
NoSession == [id |-> 0, sessionCode |-> 0, hostId |-> 0, active |-> 0]

sessionCurrentId == Len(storageSessions) + 1

\* createSession losing the host of the record it stores
createSession_NoHost(store, code, host) ==
    Append(store, [id |-> Len(store) + 1, sessionCode |-> code, hostId |-> 0,
                   active |-> 1])

\* storage.createSession: a new record under the next id, active = 1
createSession(store, code, host) ==
    Append(store, [id |-> Len(store) + 1, sessionCode |-> code, hostId |-> host,
                   active |-> 1])

\* storage.getSessionByCode: the first record, in insertion order, with that code
getSessionByCode(store, code) ==
    LET hits == {i \in 1..Len(store) : store[i].sessionCode = code}
    IN  IF hits = {} THEN NoSession
        ELSE store[CHOOSE i \in hits : \A j \in hits : i <= j]

\* storage.updateSessionStatus: the record with that id, if any, gets the flag
updateSessionStatus(store, id, active) ==
    IF id \in 1..Len(store)
    THEN [store EXCEPT ![id].active = active]
    ELSE store

\* ---- envelopes ----
ClientIdMsg_Anonymous(k) == [type |-> "client_id", clientId |-> 0]
ClientIdMsg(k) == [type |-> "client_id", clientId |-> k]
SessionCreatedOk(c) == [type |-> "session_created", sessionCode |-> c, success |-> TRUE]
SessionCreatedExists ==
    [type |-> "session_created", success |-> FALSE,
     error |-> "Session code already exists"]
SessionJoinedOk(c, h) ==
    [type |-> "session_joined", success |-> TRUE, sessionCode |-> c, hostId |-> h]
SessionJoinedFail ==
    [type |-> "session_joined", success |-> FALSE,
     error |-> "Session not found or inactive"]
ClientJoined(k, c) == [type |-> "client_joined", clientId |-> k, sessionCode |-> c]
ParticipantDisconnected(k) == [type |-> "participant_disconnected", clientId |-> k]
ParticipantLeft(k) == [type |-> "participant_left", clientId |-> k]
SessionCreatedFailed ==
    [type |-> "session_created", success |-> FALSE,
     error |-> "Failed to create session"]
ErrorMsg == [type |-> "error", message |-> "Invalid message format"]

\* an offer / answer / ice_candidate envelope: `data` as the sender wrote it
\* (fromId 0: the payload has no fromId).  `via` and `seq` are history, not on
\* the wire: the connection the frame arrived on and its arrival number.
Relay_Stamped(type, data, k, n) ==
    [type |-> type, targetId |-> data.targetId, fromId |-> k,
     via |-> k, seq |-> n]

Relay(type, data, k, n) ==
    [type |-> type, targetId |-> data.targetId, fromId |-> data.fromId,
     via |-> k, seq |-> n]
RelayTypes == {"offer", "answer", "ice_candidate"}

\* ws.send putting the envelope in front of what the transport was sent before
Send_Prepend(log, targets, env) ==
    [j \in Ids |-> IF j \in targets THEN <<env>> \o log[j] ELSE log[j]]

\* ws.send on each transport of `targets`: one envelope appended to each
Send(log, targets, env) ==
    [j \in Ids |-> IF j \in targets THEN Append(log[j], env) ELSE log[j]]

\* a delivery that tests the registry alone, not readyState
Reachable_Registered(members) == members \cap clients

\* the transports notifySessionParticipants reaches: members registered and OPEN
Reachable(members) == members \cap clients \cap open

\* notifySessionParticipants broadcasting to every registered transport
notifySessionParticipants_Broadcast(log, tbl, code, env) ==
    IF code \notin DOMAIN tbl THEN log
    ELSE Send(log, clients \cap open, env)

\* notifySessionParticipants(code, message) on session table `tbl`
notifySessionParticipants(log, tbl, code, env) ==
    IF code \notin DOMAIN tbl THEN log
    ELSE Send(log, Reachable(tbl[code]), env)

Idle == [op |-> "idle", code |-> 0, session |-> NoSession]

Remove(tbl, code) == [c \in DOMAIN tbl \ {code} |-> tbl[c]]

\* fileIds: those this peer generates, and the one of a file of the remote peer
SentIds == 1..MaxFiles
RemoteIds == {MaxFiles + 1}
FileIds == SentIds \cup RemoteIds
\* fileChunks[fileId] is undefined
NoChunks == [held |-> FALSE, stored |-> {}]

Init ==
    /\ nextId = 1
    /\ clients = {}
    /\ open = {}
    /\ sessions = <<>>
    /\ storageSessions = <<>>
    /\ pc = [k \in Ids |-> Idle]
    /\ delivered = [k \in Ids |-> <<>>]
    /\ msgs = 0
    /\ creator = [c \in Codes |-> 0]
    /\ retired = {}
    /\ mediaRecorder = 0
    /\ recorderState = "inactive"
    /\ recordingStream = FALSE
    /\ recordedChunks = <<>>
    /\ timerId = FALSE
    /\ currentRecordingId = 0
    /\ recordingState = "inactive"
    /\ pending = <<>>
    /\ completed = <<>>
    /\ notified = "none"
    /\ result = [call |-> "none", ret |-> "none"]
    /\ cancelled = {}
    /\ nextRecording = 1
    /\ socket = 0
    /\ sockets = <<>>
    /\ isConnected = FALSE
    /\ reconnectAttempts = 0
    /\ timers = <<>>
    /\ wsClientId = 0
    /\ sessionCode = 0
    /\ sentFrames = <<>>
    /\ calls = 0
    /\ autoAttempts = 0
    /\ userClosed = FALSE
    /\ fileProgress = [f \in FileIds |-> "none"]
    /\ fileChunks = [f \in FileIds |-> NoChunks]
    /\ currentTransfers = {}
    /\ cancelObj = [f \in SentIds |-> FALSE]
    /\ loop = [f \in SentIds |-> [at |-> "none", chunkIndex |-> 0, totalChunks |-> 0]]
    /\ nextFile = 1
    /\ dataSent = <<>>
    /\ cancels = 0
    /\ fileMsgs = 0
    /\ raised = 0
    /\ cancelledAt = [f \in SentIds |-> 0]

\* wss.on("connection"): a fresh identity is registered and sent to the peer
Connection ==
    /\ nextId <= MaxClients
    /\ clients' = clients \cup {nextId}
    /\ open' = open \cup {nextId}
    /\ delivered' = [delivered EXCEPT ![nextId] = Append(@, ClientIdMsg(nextId))]
    /\ nextId' = nextId + 1
    /\ UNCHANGED <<sessions, storageSessions, pc, msgs, creator, retired>>
    /\ UNCHANGED clientVars

\* the transport leaves the OPEN state (CLOSING / CLOSED) before "close" is emitted
TransportDown(k) ==
    /\ k \in open
    /\ open' = open \ {k}
    /\ UNCHANGED <<nextId, clients, sessions, storageSessions, pc, delivered, msgs,
                   creator, retired>>
    /\ UNCHANGED clientVars

\* the close handler telling every registered OPEN transport, member or not
closeHandler_NotifiesAll(tbl, reg, opn, log, k) ==
    [sessions |-> [c \in {d \in DOMAIN tbl : tbl[d] # {k}} |-> tbl[c] \ {k}],
     clients |-> reg \ {k},
     delivered |-> [j \in Ids |->
                      IF j \in reg \cap opn
                      THEN log[j] \o [i \in 1..Cardinality(DOMAIN tbl) |-> ParticipantLeft(k)]
                      ELSE log[j]]]

\* the body of ws.on("close") for identity k, on session table `tbl`, registry
\* `reg`, OPEN transports `opn` and logs `log`: k leaves every session it is
\* in, the remaining members that are registered and OPEN are told, emptied
\* sessions are deleted, and k leaves the registry
closeHandler(tbl, reg, opn, log, k) ==
    LET affected == {c \in DOMAIN tbl : k \in tbl[c]}
        emptied == {c \in affected : tbl[c] = {k}}
        notices(j) == Cardinality({c \in affected : j \in tbl[c] \ {k}})
    IN  [sessions |-> [c \in DOMAIN tbl \ emptied |-> tbl[c] \ {k}],
         clients |-> reg \ {k},
         delivered |-> [j \in Ids |->
                          IF j \in reg \cap opn
                          THEN log[j] \o [i \in 1..notices(j) |-> ParticipantLeft(k)]
                          ELSE log[j]]]

\* ws.on("close") leaving the entry of the closed transport in the registry
OnClose_KeepsEntry(k) ==
    /\ k \in clients
    /\ k \notin open
    /\ LET after == closeHandler(sessions, clients, open, delivered, k)
           emptied == {c \in DOMAIN sessions : sessions[c] = {k}}
       IN  /\ sessions' = after.sessions
           /\ delivered' = after.delivered
           /\ clients' = clients
           /\ creator' = [c \in Codes |-> IF c \in emptied THEN 0 ELSE creator[c]]
           /\ retired' = retired \cup emptied
    /\ UNCHANGED <<nextId, open, storageSessions, pc, msgs>>
    /\ UNCHANGED clientVars

\* ws.on("close")
OnClose(k) ==
    /\ k \in clients
    /\ k \notin open
    /\ LET after == closeHandler(sessions, clients, open, delivered, k)
           emptied == {c \in DOMAIN sessions : sessions[c] = {k}}
       IN  /\ sessions' = after.sessions
           /\ delivered' = after.delivered
           /\ clients' = after.clients
           /\ creator' = [c \in Codes |-> IF c \in emptied THEN 0 ELSE creator[c]]
           /\ retired' = retired \cup emptied
    /\ UNCHANGED <<nextId, open, storageSessions, pc, msgs>>
    /\ UNCHANGED clientVars

\* a frame arrives on k's transport and no handler of k is suspended
Receives(k) ==
    /\ k \in open
    /\ pc[k].op = "idle"
    /\ msgs < MaxMsgs
    /\ msgs' = msgs + 1

\* handleCreateSession refusing every code that has a persisted record
handleCreateSession_ChecksStore(k, c) ==
    /\ Receives(k)
    /\ IF c \notin DOMAIN sessions
          /\ \A i \in 1..Len(storageSessions) : storageSessions[i].sessionCode # c
       THEN /\ sessions' = sessions @@ (c :> {k})
            /\ storageSessions' = createSession(storageSessions, c, k)
            /\ pc' = [pc EXCEPT ![k] =
                        [op |-> "create", code |-> c,
                         session |-> storageSessions'[Len(storageSessions')]]]
            /\ creator' = [creator EXCEPT ![c] = k]
            /\ retired' = retired \ {c}
            /\ UNCHANGED delivered
       ELSE /\ delivered' = Send(delivered, {k} \cap open, SessionCreatedExists)
            /\ UNCHANGED <<sessions, storageSessions, pc, creator, retired>>
    /\ UNCHANGED <<nextId, clients, open>>
    /\ UNCHANGED clientVars

\* handleCreateSession setting the entry without looking whether the code is taken
handleCreateSession_Overwrite(k, c) ==
    /\ Receives(k)
    /\ sessions' = [d \in DOMAIN sessions \cup {c} |->
                        IF d = c THEN {k} ELSE sessions[d]]
    /\ storageSessions' = createSession(storageSessions, c, k)
    /\ pc' = [pc EXCEPT ![k] =
                [op |-> "create", code |-> c,
                 session |-> storageSessions'[Len(storageSessions')]]]
    /\ creator' = [creator EXCEPT ![c] = k]
    /\ retired' = retired \ {c}
    /\ UNCHANGED <<nextId, clients, open, delivered>>
    /\ UNCHANGED clientVars

\* handleCreateSession up to its await (or to its end, when the code is taken)
handleCreateSession(k, c) ==
    /\ Receives(k)
    /\ IF c \notin DOMAIN sessions
       THEN /\ sessions' = sessions @@ (c :> {k})
            /\ storageSessions' = createSession(storageSessions, c, k)
            /\ pc' = [pc EXCEPT ![k] =
                        [op |-> "create", code |-> c,
                         session |-> storageSessions'[Len(storageSessions')]]]
            /\ creator' = [creator EXCEPT ![c] = k]
            /\ retired' = retired \ {c}
            /\ UNCHANGED delivered
       ELSE /\ delivered' = Send(delivered, {k} \cap open, SessionCreatedExists)
            /\ UNCHANGED <<sessions, storageSessions, pc, creator, retired>>
    /\ UNCHANGED <<nextId, clients, open>>
    /\ UNCHANGED clientVars

\* handleCreateSession after `await storage.createSession`: the ack
handleCreateSessionAck(k) ==
    /\ pc[k].op = "create"
    /\ delivered' = Send(delivered, {k} \cap open, SessionCreatedOk(pc[k].code))
    /\ pc' = [pc EXCEPT ![k] = Idle]
    /\ UNCHANGED <<nextId, clients, open, sessions, storageSessions, msgs,
                   creator, retired>>
    /\ UNCHANGED clientVars

\* handleJoinSession up to `await storage.getSessionByCode`
handleJoinSession(k, c) ==
    /\ Receives(k)
    /\ pc' = [pc EXCEPT ![k] =
                [op |-> "join", code |-> c,
                 session |-> getSessionByCode(storageSessions, c)]]
    /\ UNCHANGED <<nextId, clients, open, sessions, storageSessions, delivered,
                   creator, retired>>
    /\ UNCHANGED clientVars

\* handleJoinSession after the await, taking out a joiner that is a member already
handleJoinSessionResume_Toggles(k) ==
    /\ pc[k].op = "join"
    /\ LET c == pc[k].code
           session == pc[k].session
       IN  IF session = NoSession \/ session.active # 1
           THEN /\ delivered' = Send(delivered, {k} \cap open, SessionJoinedFail)
                /\ UNCHANGED sessions
           ELSE /\ sessions' =
                     IF c \in DOMAIN sessions
                     THEN [sessions EXCEPT ![c] =
                             IF k \in @ THEN @ \ {k} ELSE @ \cup {k}]
                     ELSE sessions @@ (c :> {k})
                /\ delivered' =
                     Send(Send(delivered, Reachable({session.hostId}),
                               ClientJoined(k, c)),
                          {k} \cap open, SessionJoinedOk(c, session.hostId))
    /\ pc' = [pc EXCEPT ![k] = Idle]
    /\ UNCHANGED <<nextId, clients, open, storageSessions, msgs, creator,
                   retired>>
    /\ UNCHANGED clientVars

\* handleJoinSession after the await, testing only `!session`, not its active flag
handleJoinSessionResume_NoActiveTest(k) ==
    /\ pc[k].op = "join"
    /\ LET c == pc[k].code
           session == pc[k].session
       IN  IF session = NoSession
           THEN /\ delivered' = Send(delivered, {k} \cap open, SessionJoinedFail)
                /\ UNCHANGED sessions
           ELSE /\ sessions' =
                     IF c \in DOMAIN sessions
                     THEN [sessions EXCEPT ![c] = @ \cup {k}]
                     ELSE sessions @@ (c :> {k})
                /\ delivered' =
                     Send(Send(delivered, Reachable({session.hostId}),
                               ClientJoined(k, c)),
                          {k} \cap open, SessionJoinedOk(c, session.hostId))
    /\ pc' = [pc EXCEPT ![k] = Idle]
    /\ UNCHANGED <<nextId, clients, open, storageSessions, msgs, creator,
                   retired>>
    /\ UNCHANGED clientVars

\* handleJoinSession after the await
handleJoinSessionResume(k) ==
    /\ pc[k].op = "join"
    /\ LET c == pc[k].code
           session == pc[k].session
       IN  IF session = NoSession \/ session.active # 1
           THEN /\ delivered' = Send(delivered, {k} \cap open, SessionJoinedFail)
                /\ UNCHANGED sessions
           ELSE /\ sessions' =
                     IF c \in DOMAIN sessions
                     THEN [sessions EXCEPT ![c] = @ \cup {k}]
                     ELSE sessions @@ (c :> {k})
                /\ delivered' =
                     Send(Send(delivered, Reachable({session.hostId}),
                               ClientJoined(k, c)),
                          {k} \cap open, SessionJoinedOk(c, session.hostId))
    /\ pc' = [pc EXCEPT ![k] = Idle]
    /\ UNCHANGED <<nextId, clients, open, storageSessions, msgs, creator,
                   retired>>
    /\ UNCHANGED clientVars

\* handleDisconnect without the clean-up of a session left empty
handleDisconnect_NoCleanup(k, c) ==
    /\ Receives(k)
    /\ IF c \in DOMAIN sessions
       THEN LET left == [sessions EXCEPT ![c] = @ \ {k}]
            IN  /\ delivered' =
                     notifySessionParticipants(delivered, left, c,
                                               ParticipantDisconnected(k))
                /\ sessions' = left
                /\ UNCHANGED <<pc, creator, retired>>
       ELSE UNCHANGED <<sessions, pc, delivered, creator, retired>>
    /\ UNCHANGED <<nextId, clients, open, storageSessions>>
    /\ UNCHANGED clientVars

\* handleDisconnect up to `await storage.getSessionByCode` (or to its end)
handleDisconnect(k, c) ==
    /\ Receives(k)
    /\ IF c \in DOMAIN sessions
       THEN LET left == [sessions EXCEPT ![c] = @ \ {k}]
            IN  /\ delivered' =
                     notifySessionParticipants(delivered, left, c,
                                               ParticipantDisconnected(k))
                /\ IF left[c] = {}
                   THEN /\ sessions' = Remove(sessions, c)
                        /\ pc' = [pc EXCEPT ![k] =
                                    [op |-> "disconnect", code |-> c,
                                     session |->
                                        getSessionByCode(storageSessions, c)]]
                        /\ creator' = [creator EXCEPT ![c] = 0]
                        /\ retired' = retired \cup {c}
                   ELSE /\ sessions' = left
                        /\ UNCHANGED <<pc, creator, retired>>
       ELSE UNCHANGED <<sessions, pc, delivered, creator, retired>>
    /\ UNCHANGED <<nextId, clients, open, storageSessions>>
    /\ UNCHANGED clientVars

\* handleDisconnect after the await: the record found is flagged inactive
handleDisconnectResume(k) ==
    /\ pc[k].op = "disconnect"
    /\ storageSessions' =
         IF pc[k].session # NoSession
         THEN updateSessionStatus(storageSessions, pc[k].session.id, 0)
         ELSE storageSessions
    /\ pc' = [pc EXCEPT ![k] = Idle]
    /\ UNCHANGED <<nextId, clients, open, sessions, delivered, msgs, creator,
                   retired>>
    /\ UNCHANGED clientVars

\* POST /api/sessions: a record is persisted; the live table is not touched
PostSession(c, h) ==
    /\ msgs < MaxMsgs
    /\ msgs' = msgs + 1
    /\ storageSessions' = createSession(storageSessions, c, h)
    /\ UNCHANGED <<nextId, clients, open, sessions, pc, delivered, creator, retired>>
    /\ UNCHANGED clientVars

\* a relay frame arrives on k's transport; relay handlers hold no await, so
\* one runs whether or not an async handler of k is suspended
ReceivesRelay(k) ==
    /\ k \in open
    /\ msgs < MaxMsgs
    /\ msgs' = msgs + 1

\* handleOffer(parsedMessage.data)
handleOffer(k, data) ==
    /\ ReceivesRelay(k)
    /\ delivered' = Send(delivered, Reachable({data.targetId}),
                         Relay("offer", data, k, msgs'))
    /\ UNCHANGED <<nextId, clients, open, sessions, storageSessions, pc, creator,
                   retired>>
    /\ UNCHANGED clientVars

\* handleAnswer(parsedMessage.data)
handleAnswer(k, data) ==
    /\ ReceivesRelay(k)
    /\ delivered' = Send(delivered, Reachable({data.targetId}),
                         Relay("answer", data, k, msgs'))
    /\ UNCHANGED <<nextId, clients, open, sessions, storageSessions, pc, creator,
                   retired>>
    /\ UNCHANGED clientVars

\* handleIceCandidate(parsedMessage.data)
handleIceCandidate(k, data) ==
    /\ ReceivesRelay(k)
    /\ delivered' = Send(delivered, Reachable({data.targetId}),
                         Relay("ice_candidate", data, k, msgs'))
    /\ UNCHANGED <<nextId, clients, open, sessions, storageSessions, pc, creator,
                   retired>>
    /\ UNCHANGED clientVars

Next ==
    \/ Connection
    \/ \E k \in Ids : TransportDown(k)
    \/ \E k \in Ids : OnClose(k)
    \/ \E k \in Ids, c \in Codes : handleCreateSession(k, c)
    \/ \E k \in Ids : handleCreateSessionAck(k)
    \/ \E k \in Ids, c \in Codes : handleJoinSession(k, c)
    \/ \E k \in Ids : handleJoinSessionResume(k)
    \/ \E k \in Ids, c \in Codes : handleDisconnect(k, c)
    \/ \E k \in Ids : handleDisconnectResume(k)
    \/ \E c \in Codes, h \in HostIds : PostSession(c, h)

Spec == Init /\ [][Next]_vars

\* The WebSocket flow as Node runs it over MemStorage: the promise a handler
\* awaits is already resolved, so the handler resumes (a microtask) before the
\* next event of another transport is dispatched.
Suspended == \E k \in Ids : pc[k].op # "idle"

NextSerial ==
    \/ ~Suspended /\ Connection
    \/ ~Suspended /\ \E k \in Ids : TransportDown(k)
    \/ ~Suspended /\ \E k \in Ids : OnClose(k)
    \/ \E k \in Ids, c \in Codes : handleCreateSession(k, c) /\ ~Suspended
    \/ \E k \in Ids : handleCreateSessionAck(k)
    \/ \E k \in Ids, c \in Codes : handleJoinSession(k, c) /\ ~Suspended
    \/ \E k \in Ids : handleJoinSessionResume(k)
    \/ \E k \in Ids, c \in Codes : handleDisconnect(k, c) /\ ~Suspended
    \/ \E k \in Ids : handleDisconnectResume(k)

SerialSpec == Init /\ [][NextSerial]_vars

\* The WebSocket flow with the relay of offer / answer / ice_candidate frames:
\* every await is a scheduling point, as in Spec; the runs are kept to
\* MaxRelayClients connections and MaxRelayCodes codes.
NextRelay ==
    \/ Connection /\ nextId <= MaxRelayClients
    \/ \E k \in Ids : TransportDown(k)
    \/ \E k \in Ids : OnClose(k)
    \/ \E k \in Ids, c \in 1..MaxRelayCodes : handleCreateSession(k, c)
    \/ \E k \in Ids : handleCreateSessionAck(k)
    \/ \E k \in Ids, c \in 1..MaxRelayCodes : handleJoinSession(k, c)
    \/ \E k \in Ids : handleJoinSessionResume(k)
    \/ \E k \in Ids, c \in 1..MaxRelayCodes : handleDisconnect(k, c)
    \/ \E k \in Ids : handleDisconnectResume(k)
    \/ \E k \in Ids, data \in RelayData : handleOffer(k, data)
    \/ \E k \in Ids, data \in RelayData : handleAnswer(k, data)
    \/ \E k \in Ids, data \in RelayData : handleIceCandidate(k, data)

RelaySpec == Init /\ [][NextRelay]_vars

\* ---- frames that cannot be handled, and a persistence layer that fails ----

\* a frame that JSON.parse rejects: the catch of the message listener answers
MalformedFrame(k) ==
    /\ ReceivesRelay(k)
    /\ delivered' = Send(delivered, {k}, ErrorMsg)
    /\ UNCHANGED <<nextId, clients, open, sessions, storageSessions, pc, creator,
                   retired>>
    /\ UNCHANGED clientVars

\* an offer / answer / ice_candidate frame without `data`: the destructuring
\* in the (synchronous) handler throws inside the try of the listener
RelayWithoutData(k) ==
    /\ ReceivesRelay(k)
    /\ delivered' = Send(delivered, {k}, ErrorMsg)
    /\ UNCHANGED <<nextId, clients, open, sessions, storageSessions, pc, creator,
                   retired>>
    /\ UNCHANGED clientVars

\* the process ends: every transport and all in-memory state are gone, no
\* connection is accepted and no frame handled any more (the two counters
\* are put at their bounds)
Terminated ==
    /\ clients' = {}
    /\ open' = {}
    /\ sessions' = <<>>
    /\ storageSessions' = <<>>
    /\ pc' = [k \in Ids |-> Idle]
    /\ creator' = [c \in Codes |-> 0]
    /\ retired' = {}
    /\ nextId' = MaxClients + 1
    /\ msgs' = MaxMsgs
    /\ UNCHANGED delivered

\* a create_session / join_session / disconnect frame without `data`: the
\* destructuring throws inside the async handler, whose promise the listener
\* does not await, so the catch of the listener never sees it.  The rejection
\* is unhandled: Node reports it and goes on, or ends the process, depending
\* on its version and flags.
AsyncWithoutData(k) ==
    /\ k \in open
    /\ msgs < MaxMsgs
    /\ \/ /\ msgs' = msgs + 1
          /\ UNCHANGED <<nextId, clients, open, sessions, storageSessions, pc,
                         delivered, creator, retired>>
       \/ Terminated
    /\ UNCHANGED clientVars

\* handleCreateSession for a free code, up to an `await storage.createSession`
\* that is going to reject
handleCreateSessionRejected(k, c) ==
    /\ Receives(k)
    /\ c \notin DOMAIN sessions
    /\ sessions' = sessions @@ (c :> {k})
    /\ pc' = [pc EXCEPT ![k] = [op |-> "create_failed", code |-> c,
                                session |-> NoSession]]
    /\ creator' = [creator EXCEPT ![c] = k]
    /\ retired' = retired \ {c}
    /\ UNCHANGED <<nextId, clients, open, storageSessions, delivered>>
    /\ UNCHANGED clientVars

\* handleCreateSession after the rejection: the catch block
handleCreateSessionCatch(k) ==
    /\ pc[k].op = "create_failed"
    /\ delivered' = Send(delivered, {k} \cap open, SessionCreatedFailed)
    /\ pc' = [pc EXCEPT ![k] = Idle]
    /\ UNCHANGED <<nextId, clients, open, sessions, storageSessions, msgs,
                   creator, retired>>
    /\ UNCHANGED clientVars

\* The WebSocket flow with frames that cannot be handled and with a
\* persistence layer whose createSession may reject, kept to MaxRelayClients
\* connections and MaxRelayCodes codes.
NextFault ==
    \/ Connection /\ nextId <= MaxRelayClients
    \/ \E k \in Ids : TransportDown(k)
    \/ \E k \in Ids : OnClose(k)
    \/ \E k \in Ids, c \in 1..MaxRelayCodes : handleCreateSession(k, c)
    \/ \E k \in Ids : handleCreateSessionAck(k)
    \/ \E k \in Ids, c \in 1..MaxRelayCodes : handleCreateSessionRejected(k, c)
    \/ \E k \in Ids : handleCreateSessionCatch(k)
    \/ \E k \in Ids, c \in 1..MaxRelayCodes : handleJoinSession(k, c)
    \/ \E k \in Ids : handleJoinSessionResume(k)
    \/ \E k \in Ids, c \in 1..MaxRelayCodes : handleDisconnect(k, c)
    \/ \E k \in Ids : handleDisconnectResume(k)
    \/ \E k \in Ids : MalformedFrame(k)
    \/ \E k \in Ids : RelayWithoutData(k)
    \/ \E k \in Ids : AsyncWithoutData(k)

FaultSpec == Init /\ [][NextFault]_vars

\* ---- the screen recorder of a client (client/src/lib/screenRecorder.ts) ----

Returned(call, ret) == [call |-> call, ret |-> ret]

\* MediaRecorder.stop() on a recorder that is recording or paused: the recorder
\* is inactive at once, and the browser queues a dataavailable event with the
\* data gathered since the last one, then a stop event
RecorderStops ==
    /\ recorderState' = "inactive"
    /\ pending' = pending \o <<[type |-> "dataavailable", recorder |-> mediaRecorder],
                               [type |-> "stop", recorder |-> mediaRecorder]>>

\* startRecording(stream, options)
startRecording(hasVideo) ==
    /\ nextRecording <= MaxRecordings
    /\ IF mediaRecorder # 0 /\ recordingState # "inactive"
       THEN /\ result' = Returned("startRecording", "Recording already in progress")
            /\ UNCHANGED <<mediaRecorder, recorderState, recordingStream,
                           recordedChunks, timerId, currentRecordingId,
                           recordingState, notified, nextRecording>>
       ELSE IF ~hasVideo
       THEN /\ result' = Returned("startRecording", "No video tracks found in the stream")
            /\ UNCHANGED <<mediaRecorder, recorderState, recordingStream,
                           recordedChunks, timerId, currentRecordingId,
                           recordingState, notified, nextRecording>>
       ELSE /\ recordingStream' = TRUE
            /\ mediaRecorder' = nextRecording
            /\ recorderState' = "recording"
            /\ recordedChunks' = <<>>
            /\ currentRecordingId' = nextRecording
            /\ recordingState' = "recording"
            /\ timerId' = TRUE
            /\ notified' = "recording"
            /\ result' = Returned("startRecording", "started")
            /\ nextRecording' = nextRecording + 1
    /\ UNCHANGED <<pending, completed, cancelled>>
    /\ UNCHANGED <<serverVars, socketVars, fileVars>>

\* pauseRecording() without the test of this.recordingState
pauseRecording_NoStateTest ==
    /\ IF mediaRecorder = 0 \/ recorderState = "inactive"
       THEN /\ result' = Returned("pauseRecording", "false")
            /\ UNCHANGED <<recorderState, recordingState, timerId, notified>>
       ELSE /\ recorderState' = "paused"
            /\ recordingState' = "paused"
            /\ timerId' = FALSE
            /\ notified' = "paused"
            /\ result' = Returned("pauseRecording", "true")
    /\ UNCHANGED <<mediaRecorder, recordingStream, recordedChunks,
                   currentRecordingId, pending, completed, cancelled, nextRecording>>
    /\ UNCHANGED <<serverVars, socketVars, fileVars>>

\* pauseRecording(); MediaRecorder.pause() throws on an inactive recorder
pauseRecording ==
    /\ IF mediaRecorder = 0 \/ recordingState # "recording" \/ recorderState = "inactive"
       THEN /\ result' = Returned("pauseRecording", "false")
            /\ UNCHANGED <<recorderState, recordingState, timerId, notified>>
       ELSE /\ recorderState' = "paused"
            /\ recordingState' = "paused"
            /\ timerId' = FALSE
            /\ notified' = "paused"
            /\ result' = Returned("pauseRecording", "true")
    /\ UNCHANGED <<mediaRecorder, recordingStream, recordedChunks,
                   currentRecordingId, pending, completed, cancelled, nextRecording>>
    /\ UNCHANGED <<serverVars, socketVars, fileVars>>

\* resumeRecording(); MediaRecorder.resume() throws on an inactive recorder
resumeRecording ==
    /\ IF mediaRecorder = 0 \/ recordingState # "paused" \/ recorderState = "inactive"
       THEN /\ result' = Returned("resumeRecording", "false")
            /\ UNCHANGED <<recorderState, recordingState, timerId, notified>>
       ELSE /\ recorderState' = "recording"
            /\ recordingState' = "recording"
            /\ timerId' = TRUE
            /\ notified' = "recording"
            /\ result' = Returned("resumeRecording", "true")
    /\ UNCHANGED <<mediaRecorder, recordingStream, recordedChunks,
                   currentRecordingId, pending, completed, cancelled, nextRecording>>
    /\ UNCHANGED <<serverVars, socketVars, fileVars>>

\* stopRecording().  MediaRecorder.stop() on a recorder that is inactive
\* already does nothing or throws InvalidStateError, depending on the browser.
stopRecording ==
    /\ IF mediaRecorder = 0 \/ recordingState = "inactive"
       THEN /\ result' = Returned("stopRecording", "false")
            /\ UNCHANGED <<recorderState, pending, timerId, recordingStream,
                           recordingState, notified>>
       ELSE \/ /\ IF recorderState # "inactive"
                  THEN RecorderStops
                  ELSE UNCHANGED <<recorderState, pending>>
               /\ timerId' = FALSE
               /\ recordingStream' = FALSE
               /\ recordingState' = "inactive"
               /\ notified' = "inactive"
               /\ result' = Returned("stopRecording", "true")
            \/ /\ recorderState = "inactive"
               /\ result' = Returned("stopRecording", "false")
               /\ UNCHANGED <<recorderState, pending, timerId, recordingStream,
                              recordingState, notified>>
    /\ UNCHANGED <<mediaRecorder, recordedChunks, currentRecordingId, completed,
                   cancelled, nextRecording>>
    /\ UNCHANGED <<serverVars, socketVars, fileVars>>

\* cancelRecording()
cancelRecording ==
    /\ IF mediaRecorder = 0 \/ recordingState = "inactive"
       THEN /\ result' = Returned("cancelRecording", "false")
            /\ UNCHANGED <<recorderState, pending, timerId, recordingStream,
                           recordedChunks, recordingState, notified, cancelled>>
       ELSE \/ /\ recordingStream' = FALSE
               /\ IF recorderState # "inactive"
                  THEN RecorderStops
                  ELSE UNCHANGED <<recorderState, pending>>
               /\ timerId' = FALSE
               /\ recordedChunks' = <<>>
               /\ recordingState' = "inactive"
               /\ notified' = "cancelled"
               /\ result' = Returned("cancelRecording", "true")
               /\ cancelled' = cancelled \cup {mediaRecorder}
            \/ /\ recorderState = "inactive"
               /\ recordingStream' = FALSE
               /\ result' = Returned("cancelRecording", "false")
               /\ UNCHANGED <<recorderState, pending, timerId, recordedChunks,
                              recordingState, notified, cancelled>>
    /\ UNCHANGED <<mediaRecorder, currentRecordingId, completed, nextRecording>>
    /\ UNCHANGED <<serverVars, socketVars, fileVars>>

\* mediaRecorder.ondataavailable for data of `size` from recorder r
ondataavailable(r, size) ==
    recordedChunks' = IF size > 0 THEN Append(recordedChunks, r) ELSE recordedChunks

\* the timeslice of start(1000) elapses on a recorder that is recording
Timeslice(size) ==
    /\ mediaRecorder # 0
    /\ recorderState = "recording"
    /\ Cardinality({i \in 1..Len(recordedChunks) : recordedChunks[i] = mediaRecorder})
         < MaxChunks
    /\ ondataavailable(mediaRecorder, size)
    /\ UNCHANGED <<mediaRecorder, recorderState, recordingStream, timerId,
                   currentRecordingId, recordingState, pending, completed,
                   notified, result, cancelled, nextRecording>>
    /\ UNCHANGED <<serverVars, socketVars, fileVars>>

\* the dataavailable event queued by a stop of the recorder is dispatched
FinalData(size) ==
    /\ pending # <<>>
    /\ Head(pending).type = "dataavailable"
    /\ ondataavailable(Head(pending).recorder, size)
    /\ pending' = Tail(pending)
    /\ UNCHANGED <<mediaRecorder, recorderState, recordingStream, timerId,
                   currentRecordingId, recordingState, completed, notified,
                   result, cancelled, nextRecording>>
    /\ UNCHANGED <<serverVars, socketVars, fileVars>>

\* finalizeRecording()
finalizeRecording ==
    IF recordedChunks = <<>> \/ currentRecordingId = 0
    THEN UNCHANGED <<completed, recordedChunks, currentRecordingId>>
    ELSE /\ completed' = Append(completed, [id |-> currentRecordingId,
                                            chunks |-> recordedChunks])
         /\ recordedChunks' = <<>>
         /\ currentRecordingId' = 0

\* mediaRecorder.onstop: the stop event queued by a stop of the recorder
onstop ==
    /\ pending # <<>>
    /\ Head(pending).type = "stop"
    /\ finalizeRecording
    /\ pending' = Tail(pending)
    /\ UNCHANGED <<mediaRecorder, recorderState, recordingStream, timerId,
                   recordingState, notified, result, cancelled, nextRecording>>
    /\ UNCHANGED <<serverVars, socketVars, fileVars>>

\* every track of the recorded stream ends (the user stops sharing): the
\* browser stops the recorder by itself
TracksEnded ==
    /\ mediaRecorder # 0
    /\ recorderState # "inactive"
    /\ RecorderStops
    /\ UNCHANGED <<mediaRecorder, recordingStream, recordedChunks, timerId,
                   currentRecordingId, recordingState, completed, notified,
                   result, cancelled, nextRecording>>
    /\ UNCHANGED <<serverVars, socketVars, fileVars>>

NextRecorder ==
    \/ \E hasVideo \in BOOLEAN : startRecording(hasVideo)
    \/ pauseRecording
    \/ resumeRecording
    \/ stopRecording
    \/ cancelRecording
    \/ \E size \in 0..1 : Timeslice(size)
    \/ \E size \in 0..1 : FinalData(size)
    \/ onstop
    \/ TracksEnded

RecorderSpec == Init /\ [][NextRecorder]_vars

\* ---- the socket module and the session fields of a client ----

\* the body of connectWebSocket: nothing when a socket is held and connected,
\* else a new WebSocket, which becomes the module's socket
OpensSocket ==
    IF socket # 0 /\ isConnected
    THEN UNCHANGED <<socket, sockets>>
    ELSE /\ sockets' = Append(sockets, "connecting")
         /\ socket' = Len(sockets) + 1

\* connectWebSocket() called by the application
connectWebSocket ==
    /\ calls < MaxCalls
    /\ Len(sockets) < MaxSockets
    /\ calls' = calls + 1
    /\ OpensSocket
    /\ userClosed' = FALSE
    /\ UNCHANGED <<isConnected, reconnectAttempts, timers, wsClientId, sessionCode,
                   sentFrames, autoAttempts>>
    /\ UNCHANGED <<serverVars, recorderVars, fileVars>>

\* onOpenHandler of WebSocket s
onOpenHandler(s) ==
    /\ s \in 1..Len(sockets)
    /\ sockets[s] = "connecting"
    /\ sockets' = [sockets EXCEPT ![s] = "open"]
    /\ isConnected' = TRUE
    /\ reconnectAttempts' = 0
    /\ autoAttempts' = 0
    /\ UNCHANGED <<socket, timers, wsClientId, sessionCode, sentFrames, calls,
                   userClosed>>
    /\ UNCHANGED <<serverVars, recorderVars, fileVars>>

\* handleWebSocketMessage for the client_id the server sends on WebSocket s
onMessageClientId(s) ==
    /\ s \in 1..Len(sockets)
    /\ sockets[s] = "open"
    /\ wsClientId # s
    /\ wsClientId' = s
    /\ UNCHANGED <<socket, sockets, isConnected, reconnectAttempts, timers,
                   sessionCode, sentFrames, calls, autoAttempts, userClosed>>
    /\ UNCHANGED <<serverVars, recorderVars, fileVars>>

\* getReconnectDelay(), as the fraction num / den of milliseconds
getReconnectDelay ==
    [num |-> RECONNECT_DELAY * BACKOFF_MULTIPLIER.num ^ reconnectAttempts,
     den |-> BACKOFF_MULTIPLIER.den ^ reconnectAttempts]

\* onCloseHandler of WebSocket s: the connection failed, was lost, or was
\* closed by socket.close()
onCloseHandler(s) ==
    /\ s \in 1..Len(sockets)
    /\ sockets[s] # "closed"
    /\ sockets' = [sockets EXCEPT ![s] = "closed"]
    /\ isConnected' = FALSE
    /\ timers' = IF reconnectAttempts < MAX_RECONNECT_ATTEMPTS
                 THEN Append(timers, [delay |-> RECONNECT_DELAY,
                                      attempts |-> reconnectAttempts])
                 ELSE timers
    /\ UNCHANGED <<socket, reconnectAttempts, wsClientId, sessionCode, sentFrames,
                   calls, autoAttempts, userClosed>>
    /\ UNCHANGED <<serverVars, recorderVars, fileVars>>

\* the callback of the setTimeout of onCloseHandler; the timeouts have one
\* delay, so they run in the order they were set
ReconnectTimeout ==
    /\ timers # <<>>
    /\ Len(sockets) < MaxSockets
    /\ timers' = Tail(timers)
    /\ reconnectAttempts' = reconnectAttempts + 1
    /\ OpensSocket
    /\ autoAttempts' = IF socket # 0 /\ isConnected THEN autoAttempts
                       ELSE autoAttempts + 1
    /\ UNCHANGED <<isConnected, wsClientId, sessionCode, sentFrames, calls,
                   userClosed>>
    /\ UNCHANGED <<serverVars, recorderVars, fileVars>>

\* closeWebSocket()
closeWebSocket ==
    /\ calls < MaxCalls
    /\ calls' = calls + 1
    /\ IF socket # 0
       THEN /\ sockets' = [sockets EXCEPT ![socket] =
                              IF @ = "closed" THEN "closed" ELSE "closing"]
            /\ socket' = 0
            /\ isConnected' = FALSE
            /\ wsClientId' = 0
       ELSE UNCHANGED <<sockets, socket, isConnected, wsClientId>>
    /\ userClosed' = TRUE
    /\ UNCHANGED <<reconnectAttempts, timers, sessionCode, sentFrames,
                   autoAttempts>>
    /\ UNCHANGED <<serverVars, recorderVars, fileVars>>

\* WebRTCManager.setSessionDetails(sessionCode, isHost, targetId)
setSessionDetails(c) ==
    /\ calls < MaxCalls
    /\ calls' = calls + 1
    /\ sessionCode' = c
    /\ UNCHANGED <<socket, sockets, isConnected, reconnectAttempts, timers,
                   wsClientId, sentFrames, autoAttempts, userClosed>>
    /\ UNCHANGED <<serverVars, recorderVars, fileVars>>

\* sendWebSocketMessage(type, data): the frame log after the call
sendWebSocketMessage_Unchecked(type, data) ==
    Append(sentFrames, [type |-> type, data |-> data, socket |-> socket])

sendWebSocketMessage(type, data) ==
    IF socket = 0 \/ sockets[socket] # "open"
    THEN sentFrames
    ELSE Append(sentFrames, [type |-> type, data |-> data, socket |-> socket])

\* WebRTCManager.disconnect(), its session part
disconnect ==
    /\ calls < MaxCalls
    /\ calls' = calls + 1
    /\ IF sessionCode # 0
       THEN /\ sentFrames' = sendWebSocketMessage("disconnect", sessionCode)
            /\ sessionCode' = 0
       ELSE UNCHANGED <<sentFrames, sessionCode>>
    /\ UNCHANGED <<socket, sockets, isConnected, reconnectAttempts, timers,
                   wsClientId, autoAttempts, userClosed>>
    /\ UNCHANGED <<serverVars, recorderVars, fileVars>>

NextSocket ==
    \/ connectWebSocket
    \/ \E s \in 1..MaxSockets : onOpenHandler(s)
    \/ \E s \in 1..MaxSockets : onMessageClientId(s)
    \/ \E s \in 1..MaxSockets : onCloseHandler(s)
    \/ ReconnectTimeout
    \/ closeWebSocket
    \/ \E c \in Codes : setSessionDetails(c)
    \/ disconnect

SocketSpec == Init /\ [][NextSocket]_vars

\* ---- the file transfer manager of a client ----

\* the data messages of a transfer, as handed to webRTCManager.sendDataMessage
FileTransferStart(f) == [type |-> "file_transfer_start", fileId |-> f, chunkIndex |-> 0]
FileChunk(f, i) == [type |-> "file_chunk", fileId |-> f, chunkIndex |-> i]
FileTransferComplete(f) == [type |-> "file_transfer_complete", fileId |-> f, chunkIndex |-> 0]
FileTransferError(f) == [type |-> "file_transfer_error", fileId |-> f, chunkIndex |-> 0]

\* the end of sendFile once sendFileChunks has returned: completion unless
\* cancelled, then the clean-up
sendFileEnd(f, progress, log) ==
    /\ fileProgress' = IF cancelObj[f] THEN progress
                       ELSE [progress EXCEPT ![f] = "completed"]
    /\ dataSent' = IF cancelObj[f] THEN log
                   ELSE Append(log, FileTransferComplete(f))
    /\ currentTransfers' = currentTransfers \ {f}

\* sendFile(file), for a file of totalChunks chunks, up to its first await
sendFile(totalChunks) ==
    /\ nextFile <= MaxFiles
    /\ LET f == nextFile
           log == Append(dataSent, FileTransferStart(f))
       IN /\ nextFile' = nextFile + 1
          /\ IF totalChunks = 0
             THEN /\ sendFileEnd(f, [fileProgress EXCEPT ![f] = "transferring"], log)
                  /\ loop' = [loop EXCEPT ![f] = [at |-> "done", chunkIndex |-> 0,
                                                  totalChunks |-> 0]]
             ELSE /\ fileProgress' = [fileProgress EXCEPT ![f] = "transferring"]
                  /\ dataSent' = log
                  /\ currentTransfers' = currentTransfers \cup {f}
                  /\ loop' = [loop EXCEPT ![f] = [at |-> "reading", chunkIndex |-> 0,
                                                  totalChunks |-> totalChunks]]
    /\ UNCHANGED <<fileChunks, cancelObj, cancels, fileMsgs, raised, cancelledAt>>
    /\ UNCHANGED <<serverVars, recorderVars, socketVars>>

\* sendFileChunks resumed after `await chunk.arrayBuffer()`: the chunk is sent
ChunkRead(f) ==
    /\ f \in SentIds
    /\ loop[f].at = "reading"
    /\ dataSent' = Append(dataSent, FileChunk(f, loop[f].chunkIndex))
    /\ loop' = [loop EXCEPT ![f].at = "delay"]
    /\ UNCHANGED <<fileProgress, fileChunks, currentTransfers, cancelObj, nextFile,
                   cancels, fileMsgs, raised, cancelledAt>>
    /\ UNCHANGED <<serverVars, recorderVars, socketVars>>

\* `await chunk.arrayBuffer()` rejects: the catch of sendFile
ChunkReadFails(f) ==
    /\ f \in SentIds
    /\ loop[f].at = "reading"
    /\ fileProgress' = [fileProgress EXCEPT ![f] = "failed"]
    /\ dataSent' = Append(dataSent, FileTransferError(f))
    /\ currentTransfers' = currentTransfers \ {f}
    /\ loop' = [loop EXCEPT ![f].at = "done"]
    /\ UNCHANGED <<fileChunks, cancelObj, nextFile, cancels, fileMsgs, raised,
                   cancelledAt>>
    /\ UNCHANGED <<serverVars, recorderVars, socketVars>>

\* sendFileChunks resumed after the 10 ms delay: the next turn of the loop up
\* to its await, or the return into sendFile
DelayElapsed(f) ==
    /\ f \in SentIds
    /\ loop[f].at = "delay"
    /\ IF loop[f].chunkIndex + 1 < loop[f].totalChunks /\ ~cancelObj[f]
       THEN /\ loop' = [loop EXCEPT ![f].at = "reading",
                                    ![f].chunkIndex = loop[f].chunkIndex + 1]
            /\ UNCHANGED <<fileProgress, dataSent, currentTransfers>>
       ELSE /\ sendFileEnd(f, fileProgress, dataSent)
            /\ loop' = [loop EXCEPT ![f].at = "done"]
    /\ UNCHANGED <<fileChunks, cancelObj, nextFile, cancels, fileMsgs, raised,
                   cancelledAt>>
    /\ UNCHANGED <<serverVars, recorderVars, socketVars>>

\* cancelTransfer(fileId)
cancelTransfer(f) ==
    /\ f \in SentIds
    /\ cancels < MaxCancels
    /\ cancels' = cancels + 1
    /\ IF f \in currentTransfers
       THEN /\ cancelObj' = [cancelObj EXCEPT ![f] = TRUE]
            /\ fileProgress' = IF fileProgress[f] # "none"
                               THEN [fileProgress EXCEPT ![f] = "failed"]
                               ELSE fileProgress
            /\ dataSent' = Append(dataSent, FileTransferError(f))
            /\ cancelledAt' = IF cancelledAt[f] = 0
                              THEN [cancelledAt EXCEPT ![f] = Len(dataSent')]
                              ELSE cancelledAt
       ELSE UNCHANGED <<cancelObj, fileProgress, dataSent, cancelledAt>>
    /\ UNCHANGED <<fileChunks, currentTransfers, loop, nextFile, fileMsgs, raised>>
    /\ UNCHANGED <<serverVars, recorderVars, socketVars>>

\* handleFileTransferStart({fileId, fileInfo})
handleFileTransferStart(f) ==
    /\ fileMsgs < MaxFileMsgs
    /\ fileMsgs' = fileMsgs + 1
    /\ fileChunks' = [fileChunks EXCEPT ![f] = [held |-> TRUE, stored |-> {}]]
    /\ fileProgress' = [fileProgress EXCEPT ![f] = "pending"]
    /\ UNCHANGED <<currentTransfers, cancelObj, loop, nextFile, dataSent, cancels,
                   raised, cancelledAt>>
    /\ UNCHANGED <<serverVars, recorderVars, socketVars>>

\* handleFileChunk({fileId, chunkIndex, data})
handleFileChunk(f, i) ==
    /\ fileMsgs < MaxFileMsgs
    /\ fileMsgs' = fileMsgs + 1
    /\ IF fileProgress[f] = "none"
       THEN UNCHANGED <<fileChunks, fileProgress, raised>>
       ELSE IF fileChunks[f] = NoChunks
            \* fileChunks[fileId] is undefined: the store throws a TypeError
            THEN /\ raised' = raised + 1
                 /\ UNCHANGED <<fileChunks, fileProgress>>
            ELSE /\ fileChunks' = [fileChunks EXCEPT ![f].stored = @ \cup {i}]
                 /\ fileProgress' = [fileProgress EXCEPT ![f] = "transferring"]
                 /\ UNCHANGED raised
    /\ UNCHANGED <<currentTransfers, cancelObj, loop, nextFile, dataSent, cancels,
                   cancelledAt>>
    /\ UNCHANGED <<serverVars, recorderVars, socketVars>>

\* handleFileTransferComplete({fileId})
handleFileTransferComplete(f) ==
    /\ fileMsgs < MaxFileMsgs
    /\ fileMsgs' = fileMsgs + 1
    /\ IF fileProgress[f] = "none" \/ fileChunks[f] = NoChunks
       THEN UNCHANGED <<fileChunks, fileProgress>>
       ELSE /\ fileProgress' = [fileProgress EXCEPT ![f] = "completed"]
            /\ fileChunks' = [fileChunks EXCEPT ![f] = NoChunks]
    /\ UNCHANGED <<currentTransfers, cancelObj, loop, nextFile, dataSent, cancels,
                   raised, cancelledAt>>
    /\ UNCHANGED <<serverVars, recorderVars, socketVars>>

\* handleFileTransferError({fileId, error})
handleFileTransferError(f) ==
    /\ fileMsgs < MaxFileMsgs
    /\ fileMsgs' = fileMsgs + 1
    /\ IF fileProgress[f] = "none"
       THEN UNCHANGED <<fileChunks, fileProgress>>
       ELSE /\ fileProgress' = [fileProgress EXCEPT ![f] = "failed"]
            /\ fileChunks' = [fileChunks EXCEPT ![f] = NoChunks]
    /\ UNCHANGED <<currentTransfers, cancelObj, loop, nextFile, dataSent, cancels,
                   raised, cancelledAt>>
    /\ UNCHANGED <<serverVars, recorderVars, socketVars>>

NextFile ==
    \/ \E n \in 0..MaxFileChunks : sendFile(n)
    \/ \E f \in SentIds : ChunkRead(f)
    \/ \E f \in SentIds : ChunkReadFails(f)
    \/ \E f \in SentIds : DelayElapsed(f)
    \/ \E f \in SentIds : cancelTransfer(f)
    \/ \E f \in RemoteIds : handleFileTransferStart(f)
    \/ \E f \in RemoteIds, i \in 0..(MaxFileChunks - 1) : handleFileChunk(f, i)
    \/ \E f \in RemoteIds : handleFileTransferComplete(f)
    \/ \E f \in RemoteIds : handleFileTransferError(f)

FileSpec == Init /\ [][NextFile]_vars

TypeOK ==
    /\ nextId \in 1..(MaxClients + 1)
    /\ clients \subseteq Ids
    /\ open \subseteq clients
    /\ DOMAIN sessions \subseteq Codes
    /\ \A c \in DOMAIN sessions : sessions[c] \subseteq Ids
    /\ retired \subseteq Codes
    /\ socket \in 0..Len(sockets)
    /\ \A n \in 1..Len(sockets) : sockets[n] \in {"connecting", "open", "closing", "closed"}
    /\ isConnected \in BOOLEAN
    /\ sessionCode \in {0} \cup Codes
    /\ \A f \in FileIds : fileProgress[f] \in {"none", "pending", "transferring",
                                                "completed", "failed"}
    /\ currentTransfers \subseteq SentIds
    /\ nextFile \in 1..(MaxFiles + 1)

\* ---- helpers of the properties ----
Range(seq) == {seq[i] : i \in 1..Len(seq)}
Ends(seq, env) == Len(seq) > 0 /\ seq[Len(seq)] = env
Count(seq, env) == Cardinality({i \in 1..Len(seq) : seq[i] = env})
RecordsFor(c) == {i \in 1..Len(storageSessions) : storageSessions[i].sessionCode = c}
Joinable(session) == session # NoSession /\ session.active = 1

\* C1: a create_session naming a code that the live table holds is acked
\* session_created success=false to its sender alone, and leaves the live table
\* and the persisted records (the host of the existing session) as they were.
C1_CreateOnHeldCodeFails ==
    [][\A k \in Ids, c \in Codes :
          (handleCreateSession(k, c) /\ c \in DOMAIN sessions)
          => /\ sessions' = sessions
             /\ storageSessions' = storageSessions
             /\ delivered'[k] = Append(delivered[k], SessionCreatedExists)
             /\ \A j \in Ids \ {k} : delivered'[j] = delivered[j]]_vars

\* a sender was just told its code exists, while the session it collided with is
\* live with another member
C1_Witness ==
    \E k \in Ids, c \in DOMAIN sessions :
        /\ Ends(delivered[k], SessionCreatedExists)
        /\ sessions[c] # {}
        /\ k \notin sessions[c]

\* C2: two create_session requests racing for one code: the handler that inserts
\* the code first is the only one that reaches its await (the other is acked
\* success=false at once and changes nothing), the winner is the only initial
\* member and is acked success=true when it resumes.
C2_RaceHasOneWinner ==
    /\ [](\A k1, k2 \in clients :
             (k1 # k2 /\ pc[k1].op = "create" /\ pc[k2].op = "create")
             => pc[k1].code # pc[k2].code)
    /\ [][\A k \in Ids, c \in Codes :
            /\ (handleCreateSession(k, c) /\ c \notin DOMAIN sessions)
               => /\ c \in DOMAIN sessions' /\ sessions'[c] = {k}
                  /\ pc'[k].op = "create"
            /\ (handleCreateSession(k, c)
                /\ \E w \in clients \ {k} : pc[w].op = "create" /\ pc[w].code = c)
               => /\ delivered'[k] = Append(delivered[k], SessionCreatedExists)
                  /\ sessions' = sessions
                  /\ pc'[k].op = "idle"
            /\ (handleCreateSessionAck(k) /\ pc[k].code = c /\ k \in open)
               => delivered'[k] = Append(delivered[k], SessionCreatedOk(c))]_vars

\* the loser has been acked success=false while the winner's handler is still
\* suspended at its await, the winner being the only member
C2_Witness ==
    \E w, l \in open, c \in DOMAIN sessions :
        /\ w # l
        /\ pc[w].op = "create" /\ pc[w].code = c
        /\ sessions[c] = {w}
        /\ Ends(delivered[l], SessionCreatedExists)

\* C3: a create_session naming a code never used before succeeds: the session is
\* persisted and retrievable by its code with the requester as host, the
\* requester is a member, the host of a retrievable session never changes
\* afterwards, and the ack on resumption is success=true with the code.
C3_DistinctCodesSucceed ==
    [][/\ \A k \in Ids, c \in Codes :
            /\ (handleCreateSession(k, c) /\ RecordsFor(c) = {})
               => /\ pc'[k].op = "create" /\ pc'[k].code = c
                  /\ c \in DOMAIN sessions' /\ k \in sessions'[c]
                  /\ Joinable(getSessionByCode(storageSessions', c))
                  /\ getSessionByCode(storageSessions', c).hostId = k
            /\ (handleCreateSessionAck(k) /\ pc[k].code = c /\ k \in open)
               => /\ delivered'[k] = Append(delivered[k], SessionCreatedOk(c))
                  /\ c \in DOMAIN sessions' /\ k \in sessions'[c]
       /\ \A c \in Codes :
            RecordsFor(c) # {}
            => getSessionByCode(storageSessions', c).hostId
                 = getSessionByCode(storageSessions, c).hostId]_vars

\* two requests with distinct codes have both been acked success=true, and each
\* session is retrievable with its requester as host and member
C3_Witness ==
    \E k1, k2 \in Ids, c1, c2 \in DOMAIN sessions :
        /\ c1 # c2
        /\ Cardinality(RecordsFor(c1)) = 1 /\ Cardinality(RecordsFor(c2)) = 1
        /\ SessionCreatedOk(c1) \in Range(delivered[k1])
        /\ SessionCreatedOk(c2) \in Range(delivered[k2])
        /\ getSessionByCode(storageSessions, c1).hostId = k1
        /\ getSessionByCode(storageSessions, c2).hostId = k2
        /\ k1 \in sessions[c1] /\ k2 \in sessions[c2]

\* C4: a join_session naming a code with no persisted session, or with none that
\* is active, finds nothing joinable; the handler then acks session_joined
\* success=false to the sender, sends nothing to anyone else and leaves the live
\* table and the persisted records unchanged.
C4_JoinUnknownOrInactiveFails ==
    [][\A k \in Ids :
          /\ \A c \in Codes :
                (handleJoinSession(k, c)
                 /\ \A i \in RecordsFor(c) : storageSessions[i].active # 1)
                => ~Joinable(pc'[k].session)
          /\ (handleJoinSessionResume(k) /\ ~Joinable(pc[k].session))
             => /\ sessions' = sessions
                /\ storageSessions' = storageSessions
                /\ \A j \in Ids \ {k} : delivered'[j] = delivered[j]
                /\ delivered'[k] = IF k \in open
                                   THEN Append(delivered[k], SessionJoinedFail)
                                   ELSE delivered[k]]_vars

\* a join was refused for a code whose only persisted session is flagged inactive
C4_Witness ==
    \E k \in Ids, c \in Codes :
        /\ Ends(delivered[k], SessionJoinedFail)
        /\ RecordsFor(c) # {}
        /\ \A i \in RecordsFor(c) : storageSessions[i].active = 0
        /\ c \notin DOMAIN sessions

\* C5: join_session never creates a session: the codes of the live table are
\* the same after the handler as before it.
\* (stated as claimed; the code inserts an entry for a code the table lacks)
C5_JoinNeverCreatesSession ==
    [][\A k \in Ids :
          handleJoinSessionResume(k) => DOMAIN sessions' = DOMAIN sessions]_vars

\* C6: after a successful join_session for code c the host of the session live
\* under c has been delivered one client_joined{joiner, c}, and the hostId of
\* the joiner's ack is that host.
\* (stated as claimed, for a live session whose creator's transport is open)
C6_JoinNotifiesLiveHost ==
    [][\A k \in Ids :
          LET c == pc[k].code
              h == creator[c]
          IN  (/\ handleJoinSessionResume(k)
               /\ Joinable(pc[k].session)
               /\ k \in open
               /\ c \in DOMAIN sessions
               /\ h \in open
               /\ h # k)
              => /\ delivered'[k] = Append(delivered[k], SessionJoinedOk(c, h))
                 /\ Count(delivered'[h], ClientJoined(k, c))
                      = Count(delivered[h], ClientJoined(k, c)) + 1]_vars

\* C7: every join_session naming a live code (one whose creator is connected)
\* succeeds: the joiner becomes a member without displacing any other, is acked
\* success=true, and the host is delivered exactly one client_joined for it.
\* (stated as claimed)
C7_ConcurrentJoinsAllSucceed ==
    [][\A k \in Ids :
          /\ \A c \in Codes :
                (/\ handleJoinSession(k, c)
                 /\ c \in DOMAIN sessions
                 /\ creator[c] \in open)
                => /\ Joinable(pc'[k].session)
                   /\ pc'[k].session.hostId = creator[c]
          /\ (handleJoinSessionResume(k) /\ Joinable(pc[k].session))
             => LET c == pc[k].code
                    h == pc[k].session.hostId
                IN  /\ c \in DOMAIN sessions'
                    /\ k \in sessions'[c]
                    /\ c \in DOMAIN sessions => sessions[c] \subseteq sessions'[c]
                    /\ k \in open
                       => Ends(delivered'[k], SessionJoinedOk(c, h))
                    /\ h \in open
                       => Count(delivered'[h], ClientJoined(k, c))
                            = Count(delivered[h], ClientJoined(k, c)) + 1]_vars

\* C8: once the last member of the session for code c has left, a join_session
\* for c handled before c is created again finds nothing joinable and is
\* refused without adding a member.
\* (stated as claimed)
C8_JoinAfterLastMemberLeftFails ==
    [][\A k \in Ids :
          /\ \A c \in Codes :
                (handleJoinSession(k, c) /\ c \in retired)
                => ~Joinable(pc'[k].session)
          /\ (handleJoinSessionResume(k) /\ pc[k].code \in retired)
             => /\ sessions' = sessions
                /\ k \in open => Ends(delivered'[k], SessionJoinedFail)]_vars

\* C9: the step in which the last member leaves (disconnect or transport close)
\* takes the code out of the live table, and a create_session for a code the
\* live table does not hold succeeds also when the code has been used, and
\* refused to this sender, before: the sender is its only member and is acked
\* success=true on resumption.
C9_CreateAfterRetirementSucceeds ==
    [][\A k \in Ids, c \in Codes :
          /\ (/\ handleDisconnect(k, c) \/ OnClose(k)
              /\ c \in DOMAIN sessions
              /\ sessions[c] = {k})
             => (c \notin DOMAIN sessions' /\ c \in retired')
          /\ (/\ handleCreateSession(k, c)
              /\ c \in retired
              /\ c \notin DOMAIN sessions)
             => /\ c \in DOMAIN sessions' /\ sessions'[c] = {k}
                /\ pc'[k].op = "create" /\ pc'[k].code = c
                /\ delivered' = delivered
          /\ (/\ handleCreateSessionAck(k)
              /\ pc[k].code = c
              /\ Cardinality(RecordsFor(c)) > 1
              /\ k \in open)
             => Ends(delivered'[k], SessionCreatedOk(c))]_vars

\* a sender refused for a held code has retried after the holder left, and has
\* been acked success=true as the only member of the new session
C9_Witness ==
    \E k \in open, c \in DOMAIN sessions :
        /\ Len(delivered[k]) >= 3
        /\ delivered[k][Len(delivered[k]) - 1] = SessionCreatedExists
        /\ Ends(delivered[k], SessionCreatedOk(c))
        /\ sessions[c] = {k}
        /\ Cardinality(RecordsFor(c)) = 2

\* C10: when H2 has created code c again after the earlier session for c was
\* retired, a join_session for c by another client is acked success=true with
\* hostId = H2 and H2 is delivered the client_joined notice.
\* (stated as claimed)
C10_ReusedCodeJoinsNewHost ==
    [][\A k \in Ids :
          LET c == pc[k].code
              h2 == creator[c]
          IN  (/\ handleJoinSessionResume(k)
               /\ c \in DOMAIN sessions
               /\ Cardinality(RecordsFor(c)) > 1
               /\ h2 \in open /\ h2 \in sessions[c]
               /\ k \in open /\ k # h2)
              => /\ Ends(delivered'[k], SessionJoinedOk(c, h2))
                 /\ Ends(delivered'[h2], ClientJoined(k, c))]_vars

\* C11: at most one active session holds a code: no two persisted records with
\* the same code are both active (the live table has one entry per code).
\* (stated as claimed)
C11_OneActiveSessionPerCode ==
    \A i, j \in 1..Len(storageSessions) :
        (/\ storageSessions[i].sessionCode = storageSessions[j].sessionCode
         /\ storageSessions[i].active = 1
         /\ storageSessions[j].active = 1)
        => i = j

\* C12: every code of the live table maps to a non-empty member set, so the
\* step that removes the last member also removes the entry.
C12_LiveSessionsNonEmpty ==
    \A c \in DOMAIN sessions : sessions[c] # {}

\* the last member of a session has left by explicit disconnect (its handler is
\* still suspended) and the entry is gone, while another session is live
C12_Witness ==
    \E k \in clients, c \in retired :
        /\ pc[k].op = "disconnect" /\ pc[k].code = c
        /\ c \notin DOMAIN sessions
        /\ DOMAIN sessions # {}

\* C13: every live session that was created by a host has that host among its
\* members.
\* (stated as claimed: a session whose host has left is no longer live)
C13_HostIsMember ==
    \A c \in DOMAIN sessions : creator[c] # 0 => creator[c] \in sessions[c]

\* C14: once no handler is suspended any more, every code whose session was
\* removed because its member set became empty (and that is not live again)
\* has no persisted record that is still active.
\* (stated as claimed: nothing is left to run that would flag the record)
C14_RetiredIsFlaggedInactive ==
    ~Suspended
    => \A c \in retired \ DOMAIN sessions :
          \A i \in RecordsFor(c) : storageSessions[i].active # 1

\* C15: no create_session or join_session handler starts in a state where its
\* code is gone from the live table, its session having been emptied, while a
\* persisted record of the code is still active.
\* (stated as claimed)
C15_RetirementIsAtomic ==
    [][\A k \in Ids, c \in Codes :
          (handleJoinSession(k, c) \/ handleCreateSession(k, c))
          => ~(/\ c \in retired
               /\ c \notin DOMAIN sessions
               /\ \E i \in RecordsFor(c) : storageSessions[i].active = 1)]_vars

C17_CloseActsAsDisconnect ==
    [][\A k \in Ids :
          OnClose(k)
          => \A c \in DOMAIN sessions :
                k \in sessions[c]
                => /\ c \in DOMAIN sessions' => k \notin sessions'[c]
                   /\ \A j \in Reachable(sessions[c] \ {k}) :
                         Count(delivered'[j], ParticipantDisconnected(k))
                           > Count(delivered[j], ParticipantDisconnected(k))]_vars

\* C18: when a member B that is not the creator of session c sends disconnect
\* while the creator A is a member, every remaining member with an open
\* transport is delivered exactly one participant_disconnected{B}, nobody else
\* (B included) is delivered anything, the entry stays live without B, and no
\* persisted record changes, so the session is as joinable as before; an
\* entry leaves the live table only in the step in which its only member
\* leaves.
C18_MemberDisconnectKeepsSession ==
    [][\A k \in Ids, c \in Codes :
          /\ (/\ handleDisconnect(k, c)
              /\ c \in DOMAIN sessions
              /\ k \in sessions[c]
              /\ creator[c] # k
              /\ creator[c] \in sessions[c])
             => /\ c \in DOMAIN sessions'
                /\ sessions'[c] = sessions[c] \ {k}
                /\ storageSessions' = storageSessions
                /\ pc'[k].op = "idle"
                /\ \A j \in Ids :
                      delivered'[j] =
                        IF j \in Reachable(sessions[c] \ {k})
                        THEN Append(delivered[j], ParticipantDisconnected(k))
                        ELSE delivered[j]
          /\ (/\ handleDisconnect(k, c) \/ OnClose(k)
              /\ c \in DOMAIN sessions
              /\ c \notin DOMAIN sessions')
             => sessions[c] = {k}]_vars

\* B joined A's session and has disconnected: A was told once, B was told
\* nothing, and A's session is still live and joinable
C18_Witness ==
    \E a, b \in open, c \in DOMAIN sessions :
        /\ a # b
        /\ creator[c] = a
        /\ sessions[c] = {a}
        /\ Ends(delivered[b], SessionJoinedOk(c, a))
        /\ Ends(delivered[a], ParticipantDisconnected(b))
        /\ Count(delivered[a], ParticipantDisconnected(b)) = 1
        /\ Joinable(getSessionByCode(storageSessions, c))
        /\ pc[b].op = "idle"

\* the positions of a transport's log that hold a relayed envelope
Relayed(j) == {i \in 1..Len(delivered[j]) : delivered[j][i].type \in RelayTypes}

\* C19: every offer, answer or ice_candidate delivered to a target carries a
\* fromId equal to the identity of the connection it arrived on, whatever the
\* sender wrote in its payload.
\* (stated as claimed)
C19_RelayCarriesSenderIdentity ==
    \A j \in Ids : \A i \in Relayed(j) :
        delivered[j][i].fromId = delivered[j][i].via

\* C20: the offer / answer / ice_candidate envelopes a target was sent on
\* behalf of one sender are in its log once each and in the order in which
\* the sender's frames arrived, whatever else was handled in between.
C20_RelayIsFifo ==
    \A t \in Ids : \A i, j \in Relayed(t) :
        (i < j /\ delivered[t][i].via = delivered[t][j].via)
        => delivered[t][i].seq < delivered[t][j].seq

\* a target was relayed two frames of one sender, and between the two its own
\* async handler resumed and was acked on the same transport
C20_Witness ==
    \E s, t \in Ids : \E i, j \in Relayed(t) :
        /\ s # t
        /\ i < j
        /\ delivered[t][i].via = s
        /\ delivered[t][j].via = s
        /\ \E m \in (i + 1)..(j - 1) : delivered[t][m].type = "session_created"

\* a step that handles an offer, answer or ice_candidate frame of k
RelayStep(k, data) ==
    handleOffer(k, data) \/ handleAnswer(k, data) \/ handleIceCandidate(k, data)

\* the relayed envelopes of a log
RelayedIn(log) == {i \in 1..Len(log) : log[i].type \in RelayTypes}

\* C21: an offer, answer or ice_candidate whose targetId has no registered
\* transport in the OPEN state is dropped: no transport, the sender's included,
\* is sent anything, and the registry, the session table and the persisted
\* sessions stay as they were.
C21_RelayToAbsentTargetIsSilent ==
    [][\A k \in Ids, data \in RelayData :
          (RelayStep(k, data) /\ data.targetId \notin clients \cap open)
          => /\ delivered' = delivered
             /\ clients' = clients
             /\ open' = open
             /\ sessions' = sessions
             /\ storageSessions' = storageSessions]_vars

\* all frames of the run were handled and left no trace, while a sender is
\* open and another transport is registered but no longer OPEN: the frames
\* that sender aimed at it were dropped
C21_Witness ==
    \E k \in open, t \in clients \ open :
        /\ msgs = MaxMsgs
        /\ \A j \in Ids : \A i \in 1..Len(delivered[j]) :
              delivered[j][i].type = "client_id"
        /\ sessions = <<>>
        /\ storageSessions = <<>>

\* C22: an offer, answer or ice_candidate whose targetId is registered with an
\* OPEN transport appends one envelope of that type, with targetId and fromId
\* as the sender wrote them, to the target's log and to no other; nothing
\* else changes, and no other step adds a relayed envelope to any log.
C22_RelayDeliversOnceVerbatim ==
    [][/\ \A k \in Ids, data \in RelayData :
             (RelayStep(k, data) /\ data.targetId \in clients \cap open)
             => LET t == data.targetId
                    e == delivered'[t][Len(delivered'[t])]
                IN  /\ Len(delivered'[t]) = Len(delivered[t]) + 1
                    /\ SubSeq(delivered'[t], 1, Len(delivered[t])) = delivered[t]
                    /\ (handleOffer(k, data) => e.type = "offer")
                    /\ (handleAnswer(k, data) => e.type = "answer")
                    /\ (handleIceCandidate(k, data) => e.type = "ice_candidate")
                    /\ e.targetId = data.targetId
                    /\ e.fromId = data.fromId
                    /\ \A j \in Ids \ {t} : delivered'[j] = delivered[j]
                    /\ UNCHANGED <<clients, open, sessions, storageSessions, pc>>
       /\ (\E j \in Ids :
              Cardinality(RelayedIn(delivered'[j])) # Cardinality(RelayedIn(delivered[j])))
          => \E k \in Ids, data \in RelayData : RelayStep(k, data)]_vars

\* a target holds a relayed answer whose fromId names neither nobody nor the
\* connection it arrived on: the payload went through as written
C22_Witness ==
    \E t \in open : \E i \in RelayedIn(delivered[t]) :
        /\ delivered[t][i].type = "answer"
        /\ delivered[t][i].fromId # 0
        /\ delivered[t][i].fromId # delivered[t][i].via
        /\ delivered[t][i].targetId = t

\* C26: the log of every accepted connection starts with client_id carrying
\* the identity the transport is registered under, and a transport not yet
\* accepted was sent nothing.
C26_ClientIdComesFirst ==
    \A k \in Ids :
        IF k < nextId
        THEN /\ Len(delivered[k]) > 0
             /\ delivered[k][1].type = "client_id"
             /\ delivered[k][1].clientId = k
        ELSE delivered[k] = <<>>

\* a transport was sent its client_id, then a relayed envelope, then a notice
C26_Witness ==
    \E k \in clients :
        /\ Len(delivered[k]) >= 3
        /\ delivered[k][1].type = "client_id"
        /\ delivered[k][2].type \in RelayTypes
        /\ delivered[k][3].type \in {"client_joined", "participant_disconnected",
                                      "participant_left"}

\* C25: every identity is a member of at most one live session.
\* (stated as claimed: a create or join replaces the previous membership)
C25_OneSessionPerClient ==
    \A k \in Ids : Cardinality({c \in DOMAIN sessions : k \in sessions[c]}) <= 1

\* C27 as claimed: the keys of the registry are exactly the identities whose
\* transport is OPEN.
C27_RegistryEqualsOpen ==
    clients = open

\* C27: every OPEN transport has its entry in the registry, entries exist
\* only for identities that were issued, an entry is added only by the
\* acceptance of a connection, under an identity not in use, and removed only
\* by the close handler of that identity, which removes it in the step it runs
\* in: between a transport's leaving OPEN and its close event the entry stays.
C27_RegistryTracksTransports ==
    [][/\ open' \subseteq clients'
       /\ clients' \subseteq 1..(nextId' - 1)
       /\ Connection => (nextId \notin clients /\ clients' = clients \cup {nextId})
       /\ \A k \in Ids : OnClose(k) => clients' = clients \ {k}
       /\ clients' # clients => (Connection \/ \E k \in Ids : OnClose(k))]_vars

\* one transport is closing with its entry still in the registry, another
\* was closed and its entry is gone, a third is OPEN and registered
C27_Witness ==
    \E k \in clients \ open, j \in Ids \ clients, m \in open :
        j < nextId

\* C28: the close handling run twice for an identity leaves the registry, the
\* session table and every log as the first run left them.
C28_TeardownIsIdempotent ==
    \A k \in clients \ open :
        LET once == closeHandler(sessions, clients, open, delivered, k)
            twice == closeHandler(once.sessions, once.clients, open,
                                  once.delivered, k)
        IN  twice = once

\* a transport is about to be torn down while it is in a session with another
\* member whose transport is OPEN: the first run removes it and sends a notice
C28_Witness ==
    \E k \in clients \ open, c \in DOMAIN sessions :
        /\ k \in sessions[c]
        /\ Reachable(sessions[c] \ {k}) # {}

\* C30: a disconnect naming a live session the sender is not a member of
\* changes no member set and sends nothing to the members of that session.
\* (stated as claimed)
C30_DisconnectByNonMemberIsInert ==
    [][\A k \in Ids, c \in Codes :
          (handleDisconnect(k, c) /\ c \in DOMAIN sessions /\ k \notin sessions[c])
          => /\ sessions' = sessions
             /\ \A j \in sessions[c] : delivered'[j] = delivered[j]]_vars

\* C23: every frame that cannot be handled (unparseable, or of a known type
\* without its data) appends one error envelope to the sender's log and to no
\* other, and changes neither the registry nor any session.
\* (stated as claimed)
C23_MalformedFrameYieldsError ==
    [][\A k \in Ids :
          (MalformedFrame(k) \/ RelayWithoutData(k) \/ AsyncWithoutData(k))
          => /\ delivered'[k] = Append(delivered[k], ErrorMsg)
             /\ \A j \in Ids \ {k} : delivered'[j] = delivered[j]
             /\ clients' = clients
             /\ sessions' = sessions]_vars

\* C24: a create_session handler that inserted its code into the live table
\* ends by acking success=true to its sender, whether or not the persistence
\* layer stored the record.
\* (stated as claimed)
C24_CreateAckIgnoresPersistence ==
    [][\A k \in Ids :
          (/\ pc[k].op \in {"create", "create_failed"}
           /\ pc'[k].op = "idle"
           /\ k \in open')
          => delivered'[k] = Append(delivered[k], SessionCreatedOk(pc[k].code))]_vars

\* C29: no recording-complete callback is invoked for a recording for which
\* cancelRecording has returned true.
\* (stated as claimed)
C29_CancelledIsNeverCompleted ==
    \A i \in 1..Len(completed) : completed[i].id \notin cancelled

\* C31: an offer, answer or ice_candidate is delivered to a transport only if
\* that transport is the named target and the sender and the target are
\* members of a common live session.
\* (stated as claimed)
C31_RelayOnlyWithinSession ==
    [][\A k \in Ids, data \in RelayData, t \in Ids :
          (RelayStep(k, data) /\ delivered'[t] # delivered[t])
          => /\ t = data.targetId
             /\ \E c \in DOMAIN sessions : k \in sessions[c] /\ t \in sessions[c]]_vars

\* C32: a join_session for code c that completes while its sender is a member
\* of live session c leaves the session table as it was.
C32_JoinByMemberKeepsTable ==
    [][\A k \in Ids :
          (/\ handleJoinSessionResume(k)
           /\ pc[k].code \in DOMAIN sessions
           /\ k \in sessions[pc[k].code])
          => sessions' = sessions]_vars

\* a member joined the session of another client twice and was acked success
\* both times; the session holds the two of them
C32_Witness ==
    \E h, k \in Ids, c \in DOMAIN sessions :
        /\ h # k
        /\ sessions[c] = {h, k}
        /\ Count(delivered[k], SessionJoinedOk(c, h)) = 2

\* the fields of the recorder other than the record of the last call
RecorderFields ==
    <<mediaRecorder, recorderState, recordingStream, recordedChunks, timerId,
      currentRecordingId, recordingState, pending, completed, notified>>

\* C39: recordingState is inactive, recording or paused; it changes only from
\* inactive to recording in a startRecording, from recording to paused in a
\* pauseRecording, from paused to recording in a resumeRecording and from
\* recording or paused to inactive in a stopRecording or cancelRecording;
\* startRecording while recording or paused is rejected with 'Recording
\* already in progress', and pauseRecording outside recording, resumeRecording
\* outside paused, stopRecording and cancelRecording in inactive return false,
\* each leaving every field of the recorder as it was.
C39_RecorderStateMachine ==
    [][/\ recordingState' \in {"inactive", "recording", "paused"}
       /\ recordingState' # recordingState
          => \/ /\ recordingState = "inactive" /\ recordingState' = "recording"
                /\ \E hasVideo \in BOOLEAN : startRecording(hasVideo)
             \/ /\ recordingState = "recording" /\ recordingState' = "paused"
                /\ pauseRecording
             \/ /\ recordingState = "paused" /\ recordingState' = "recording"
                /\ resumeRecording
             \/ /\ recordingState # "inactive" /\ recordingState' = "inactive"
                /\ stopRecording \/ cancelRecording
       /\ \A hasVideo \in BOOLEAN :
             (startRecording(hasVideo) /\ recordingState # "inactive")
             => /\ result'.ret = "Recording already in progress"
                /\ UNCHANGED RecorderFields
       /\ (pauseRecording /\ recordingState # "recording")
          => (result'.ret = "false" /\ UNCHANGED RecorderFields)
       /\ (resumeRecording /\ recordingState # "paused")
          => (result'.ret = "false" /\ UNCHANGED RecorderFields)
       /\ ((stopRecording \/ cancelRecording) /\ recordingState = "inactive")
          => (result'.ret = "false" /\ UNCHANGED RecorderFields)]_vars

\* a paused recording was asked to pause again and said no, and it is the
\* second recording: the first went from recording to inactive
C39_Witness ==
    /\ recordingState = "paused"
    /\ result = Returned("pauseRecording", "false")
    /\ mediaRecorder = 2

\* C35: the client opens at most MAX_RECONNECT_ATTEMPTS sockets from its
\* reconnection timeouts in a row without an open event between them, and every
\* open event puts the attempt counter back to 0.
C35_AtMostFiveReconnects ==
    /\ [](autoAttempts <= MAX_RECONNECT_ATTEMPTS)
    /\ [][\A s \in 1..MaxSockets : onOpenHandler(s) => reconnectAttempts' = 0]_vars

\* C36: from a closeWebSocket() until the next connectWebSocket() call, no
\* WebSocket is created and no reconnection timeout is set.
C36_StaysDisconnectedAfterClose ==
    [][(userClosed /\ userClosed')
          => /\ Len(sockets') = Len(sockets)
             /\ Len(timers') <= Len(timers)]_vars

\* C37: the timeout set for a reconnection after n attempts has the delay
\* RECONNECT_DELAY * BACKOFF_MULTIPLIER^n, so of two timeouts set at different
\* attempt counts the later one has the longer delay.
C37_ExponentialBackoff ==
    \A i \in 1..Len(timers) :
        /\ timers[i].delay * BACKOFF_MULTIPLIER.den ^ timers[i].attempts
              = RECONNECT_DELAY * BACKOFF_MULTIPLIER.num ^ timers[i].attempts
        /\ \A j \in 1..Len(timers) :
              timers[i].attempts < timers[j].attempts
              => timers[i].delay < timers[j].delay

\* C38 as stated: a disconnect() puts one disconnect frame naming the session
\* code on the socket exactly when a session code is set, never otherwise, and
\* leaves no session code set.
C38_DisconnectSendsWhenCodeSet ==
    [][disconnect
          => /\ sessionCode # 0
                => sentFrames' = Append(sentFrames, [type |-> "disconnect",
                                                     data |-> sessionCode,
                                                     socket |-> socket])
             /\ sessionCode = 0 => sentFrames' = sentFrames
             /\ sessionCode' = 0]_vars

\* C38: a disconnect() puts one disconnect frame naming the session code on the
\* socket exactly when a session code is set and the module's socket is open,
\* puts nothing on it otherwise, and leaves no session code set.
C38_DisconnectSendsWhenCodeSetAndOpen ==
    [][disconnect
          => /\ (sessionCode # 0 /\ socket # 0 /\ sockets[socket] = "open")
                => sentFrames' = Append(sentFrames, [type |-> "disconnect",
                                                     data |-> sessionCode,
                                                     socket |-> socket])
             /\ ~(sessionCode # 0 /\ socket # 0 /\ sockets[socket] = "open")
                => sentFrames' = sentFrames
             /\ sessionCode' = 0]_vars

\* disconnect() was called twice on an open socket after one setSessionDetails,
\* and one disconnect frame went out
C38_Witness ==
    /\ calls = 4
    /\ socket # 0 /\ sockets[socket] = "open"
    /\ sessionCode = 0
    /\ Len(sentFrames) = 1
    /\ sentFrames[1].type = "disconnect"
    /\ userClosed = FALSE

\* C33: once cancelTransfer(fileId) has returned true, no file_chunk and no
\* file_transfer_complete for that fileId is sent any more, and the status of
\* the transfer is 'failed' from then on.
C33_NothingSentAfterCancel ==
    \A f \in SentIds :
        cancelledAt[f] > 0
        => /\ fileProgress[f] = "failed"
           /\ \A i \in (cancelledAt[f] + 1)..Len(dataSent) :
                 dataSent[i].fileId = f
                 => dataSent[i].type \notin {"file_chunk", "file_transfer_complete"}

\* C34: a file_chunk for a fileId that is unknown, or whose transfer has
\* completed or failed, raises no error and leaves the status of that fileId
\* as it was.
C34_LateChunkIgnored ==
    [][\A f \in RemoteIds, i \in 0..(MaxFileChunks - 1) :
          (/\ handleFileChunk(f, i)
           /\ fileProgress[f] \in {"none", "completed", "failed"})
          => /\ raised' = raised
             /\ fileProgress'[f] = fileProgress[f]]_vars
====
